---- MODULE Spec2Model ----
(***************************************************************************)
(* CppGenerator::Generate (src/google/protobuf/compiler/cpp/generator.cc): *)
(* option resolution, output partitioning and the artifact lifecycle.      *)
(*                                                                         *)
(* Strings are modelled as sequences of pieces (a piece is a character or  *)
(* an indivisible run of characters), so that StrCat is concatenation and  *)
(* strtol, StrSplit and find_first_of work on the pieces.                  *)
(***************************************************************************)
EXTENDS Integers, Sequences, FiniteSets, TLC

\* ------------------------------------------------------------------ bounds
MaxTokens == 2
MaxMessages == 2
MaxExtensions == 2

\* ----------------------------------------------------------------- strings
Digits == <<"0", "1", "2", "3", "4", "5", "6", "7", "8", "9">>

IsDigit(c) == \E d \in 1..10 : Digits[d] = c

DigitValue(c) == (CHOOSE d \in 1..10 : Digits[d] = c) - 1

IsSpace(c) == c = " "

RECURSIVE SkipSpace(_, _)
SkipSpace(s, pos) ==
    IF pos <= Len(s) /\ IsSpace(s[pos]) THEN SkipSpace(s, pos + 1) ELSE pos

RECURSIVE StrtolDigits(_, _, _)
StrtolDigits(s, pos, acc) ==
    IF pos <= Len(s) /\ IsDigit(s[pos])
    THEN StrtolDigits(s, pos + 1, acc * 10 + DigitValue(s[pos]))
    ELSE acc

\* std::strtol(value.c_str(), nullptr, 10): leading white space, an optional
\* sign, then the longest run of decimal digits; 0 when there is none.
Strtol(s) ==
    LET p == SkipSpace(s, 1)
        neg == p <= Len(s) /\ s[p] = "-"
        signed == p <= Len(s) /\ s[p] \in {"-", "+"}
        q == IF signed THEN p + 1 ELSE p
        mag == StrtolDigits(s, q, 0)
    IN IF neg THEN 0 - mag ELSE mag

RECURSIVE DecimalOf(_)
DecimalOf(n) ==
    IF n < 10 THEN <<Digits[n + 1]>>
    ELSE DecimalOf(n \div 10) \o <<Digits[(n % 10) + 1]>>

\* absl::StrCat of an int: the decimal digits, with a sign when negative.
IntStr(n) == IF n < 0 THEN <<"-">> \o DecimalOf(0 - n) ELSE DecimalOf(n)

StrCat(a, b) == a \o b

NumberedCcFileNameSkipsZero(basename, number) ==
    StrCat(StrCat(StrCat(basename, <<".out/">>),
                  IntStr(IF number = 0 THEN 1 ELSE number)), <<".cc">>)

NumberedCcFileName(basename, number) ==
    StrCat(StrCat(StrCat(basename, <<".out/">>), IntStr(number)), <<".cc">>)

\* value.find_first_of(c, pos): the first position >= pos holding c, or
\* Len(s) + 1 (npos, which the callers replace by the size).
RECURSIVE FindFirstOf(_, _, _)
FindFirstOf(s, c, pos) ==
    IF pos > Len(s) THEN Len(s) + 1
    ELSE IF s[pos] = c THEN pos
    ELSE FindFirstOf(s, c, pos + 1)

\* absl::StrSplit(value, ':'): the segments between the delimiters, empty
\* segments kept (an empty value gives one empty segment).
RECURSIVE StrSplit(_, _, _)
StrSplit(s, c, pos) ==
    LET next == FindFirstOf(s, c, pos)
        seg == SubSeq(s, pos, next - 1)
    IN IF next > Len(s) THEN <<seg>> ELSE <<seg>> \o StrSplit(s, c, next + 1)

ForbiddenEventsOverwrites(value, pos, events) ==
    LET segs == StrSplit(value, "+", pos)
    IN { segs[j] : j \in { j \in 1..Len(segs) : segs[j] # <<>> } }

\* The do/while of the forbidden_field_listener_events option; positions are
\* 1-based here, so "pos < value.size()" reads pos <= Len(value).
RECURSIVE ForbiddenEvents(_, _, _)
ForbiddenEvents(value, pos, events) ==
    LET next_pos == FindFirstOf(value, "+", pos)
        added == IF next_pos > pos
                 THEN events \cup {SubSeq(value, pos, next_pos - 1)}
                 ELSE events
    IN IF next_pos + 1 <= Len(value)
       THEN ForbiddenEvents(value, next_pos + 1, added)
       ELSE added

\* ------------------------------------------------------------- the inputs
FileName == <<"a", ".proto">>

StripProto(name) ==
    IF Len(name) > 0 /\ name[Len(name)] \in {".proto", ".protodevel"}
    THEN SubSeq(name, 1, Len(name) - 1)
    ELSE name

Tok(k, v) == [key |-> k, value |-> v]

\* Tokens that decide which artifacts a run produces or make it fail.
RunTokens ==
    { Tok("annotate_headers", <<>>), Tok("proto_h", <<>>),
      Tok("safe_boundary_check", <<>>), Tok("speed", <<>>),
      Tok("lite_implicit_weak_fields", <<>>),
      Tok("lite_implicit_weak_fields", <<"0">>),
      Tok("lite_implicit_weak_fields", <<"1">>),
      Tok("lite_implicit_weak_fields", <<"3">>),
      Tok("lite_implicit_weak_fields", <<"1", "2">>),
      Tok("lite_implicit_weak_fields", <<"-", "1">>),
      Tok("experimental_tail_call_table_mode", <<"b", "a", "d">>),
      Tok("bogus", <<"1">>) }

\* One or more tokens for every key of the option table, and unknown keys.
AllTokens ==
    RunTokens \cup
    { Tok("dllexport_decl", <<"X">>), Tok("dllexport_decl", <<"Y">>),
      Tok("dllexport_decl", <<>>),
      Tok("annotation_pragma_name", <<"P">>),
      Tok("annotation_guard_name", <<"G">>),
      Tok("code_size", <<>>), Tok("lite", <<>>),
      Tok("lite_implicit_weak_fields", <<" ", "2", "x">>),
      Tok("lite_implicit_weak_fields", <<"x">>),
      Tok("proto_static_reflection_h", <<>>),
      Tok("annotate_accessor", <<>>),
      Tok("protos_for_field_listener_events", <<"b", ".proto", ":", "a", ".proto">>),
      Tok("protos_for_field_listener_events", <<"b", ".proto">>),
      Tok("inject_field_listener_events", <<>>),
      Tok("forbidden_field_listener_events", <<"+", "e", "+", "+", "f", "+">>),
      Tok("forbidden_field_listener_events", <<"g">>),
      Tok("forbidden_field_listener_events", <<"g", "+", "e">>),
      Tok("forbidden_field_listener_events", <<>>),
      Tok("unverified_lazy_message_sets", <<>>),
      Tok("force_eagerly_verified_lazy", <<>>),
      Tok("experimental_tail_call_table_mode", <<"never">>),
      Tok("experimental_tail_call_table_mode", <<"always">>),
      Tok("experimental_tail_call_table_mode", <<>>),
      Tok("", <<>>) }

\* Tokens for the tail-call-table mode, with what a whole run needs.
TailCallTokens ==
    { Tok("experimental_tail_call_table_mode", <<"never">>),
      Tok("experimental_tail_call_table_mode", <<"always">>),
      Tok("experimental_tail_call_table_mode", <<"b", "a", "d">>),
      Tok("experimental_tail_call_table_mode", <<>>),
      Tok("bogus", <<"1">>), Tok("annotate_headers", <<>>),
      Tok("proto_h", <<>>), Tok("lite_implicit_weak_fields", <<"3">>) }

\* Tokens for the boolean flags, with what a whole run needs.
FlagTokens ==
    { Tok("safe_boundary_check", <<>>), Tok("annotate_headers", <<>>),
      Tok("proto_h", <<>>), Tok("annotate_accessor", <<>>),
      Tok("inject_field_listener_events", <<>>),
      Tok("unverified_lazy_message_sets", <<>>),
      Tok("force_eagerly_verified_lazy", <<>>),
      Tok("protos_for_field_listener_events", <<"b", ".proto", ":", "a", ".proto">>),
      Tok("lite_implicit_weak_fields", <<"3">>),
      Tok("bogus", <<"1">>) }

TokenSeqs(T) == UNION { [1..n -> T] : n \in 0..MaxTokens }

\* ------------------------------------------------------ option resolution
\* A default-constructed Options, with the two fields Generate copies from
\* the generator object.
DefaultOptions(oss) ==
    [ opensource_runtime |-> oss,
      runtime_include_base |-> <<>>,
      dllexport_decl |-> <<>>,
      safe_boundary_check |-> FALSE,
      annotate_headers |-> FALSE,
      annotation_pragma_name |-> <<>>,
      annotation_guard_name |-> <<>>,
      enforce_mode |-> "kNoEnforcement",
      lite_implicit_weak_fields |-> FALSE,
      num_cc_files |-> 0,
      proto_h |-> FALSE,
      annotate_accessor |-> FALSE,
      inject_field_listener_events |-> FALSE,
      forbidden_field_listener_events |-> {},
      unverified_lazy_message_sets |-> FALSE,
      force_eagerly_verified_lazy |-> FALSE,
      tctable_mode |-> "default",
      bootstrap |-> FALSE ]

KnownKeys ==
    { "dllexport_decl", "safe_boundary_check", "annotate_headers",
      "annotation_pragma_name", "annotation_guard_name", "speed", "code_size",
      "lite", "lite_implicit_weak_fields", "proto_h",
      "proto_static_reflection_h", "annotate_accessor",
      "protos_for_field_listener_events", "inject_field_listener_events",
      "forbidden_field_listener_events", "unverified_lazy_message_sets",
      "force_eagerly_verified_lazy", "experimental_tail_call_table_mode" }

\* The error one token raises: <<>> when the token is accepted.
OptionErrorIgnoresUnknown(key, value) ==
    IF key = "experimental_tail_call_table_mode"
       /\ value \notin {<<"never">>, <<"always">>}
    THEN StrCat(<<"Unknown value for experimental_tail_call_table_mode: ">>, value)
    ELSE <<>>

OptionErrorAcceptsBareTailCall(key, value) ==
    IF key = "experimental_tail_call_table_mode"
    THEN IF value \in {<<"never">>, <<"always">>, <<>>} THEN <<>>
         ELSE StrCat(<<"Unknown value for experimental_tail_call_table_mode: ">>,
                     value)
    ELSE IF key \in KnownKeys THEN <<>>
    ELSE StrCat(<<"Unknown generator option: ">>, <<key>>)

OptionError(key, value) ==
    IF key = "experimental_tail_call_table_mode"
    THEN IF value \in {<<"never">>, <<"always">>} THEN <<>>
         ELSE StrCat(<<"Unknown value for experimental_tail_call_table_mode: ">>,
                     value)
    ELSE IF key \in KnownKeys THEN <<>>
    ELSE StrCat(<<"Unknown generator option: ">>, <<key>>)

\* The optimize mode a token sets: the one it finds, for the other keys.
EnforceModeFirstWins(fo, key) ==
    IF fo.enforce_mode # "kNoEnforcement" THEN fo.enforce_mode
    ELSE CASE key = "speed" -> "kSpeed"
           [] key = "code_size" -> "kCodeSize"
           [] key \in {"lite", "lite_implicit_weak_fields"} -> "kLiteRuntime"
           [] OTHER -> fo.enforce_mode

EnforceModeWeakFieldsKeepsMode(fo, key) ==
    CASE key = "speed" -> "kSpeed"
      [] key = "code_size" -> "kCodeSize"
      [] key = "lite" -> "kLiteRuntime"
      [] OTHER -> fo.enforce_mode

EnforceMode(fo, key) ==
    CASE key = "speed" -> "kSpeed"
      [] key = "code_size" -> "kCodeSize"
      [] key \in {"lite", "lite_implicit_weak_fields"} -> "kLiteRuntime"
      [] OTHER -> fo.enforce_mode

SetFlagToggles(old) == ~old

\* "= true" on a boolean switch
SetFlag(old) == TRUE

RequestedCountAlwaysParsed(fo, value) == Strtol(value)

\* num_cc_files after a lite_implicit_weak_fields token: parsed from the value
\* when there is one, left alone otherwise
RequestedCount(fo, value) ==
    IF value # <<>> THEN Strtol(value) ELSE fo.num_cc_files

\* The body of the loop over the options for one accepted token.
ApplyOption(fo, key, value) ==
    CASE key = "dllexport_decl" -> [fo EXCEPT !.dllexport_decl = value]
      [] key = "safe_boundary_check" -> [fo EXCEPT !.safe_boundary_check = SetFlag(fo.safe_boundary_check)]
      [] key = "annotate_headers" -> [fo EXCEPT !.annotate_headers = SetFlag(fo.annotate_headers)]
      [] key = "annotation_pragma_name" ->
            [fo EXCEPT !.annotation_pragma_name = value]
      [] key = "annotation_guard_name" ->
            [fo EXCEPT !.annotation_guard_name = value]
      [] key \in {"speed", "code_size", "lite"} ->
            [fo EXCEPT !.enforce_mode = EnforceMode(fo, key)]
      [] key = "lite_implicit_weak_fields" ->
            [fo EXCEPT !.enforce_mode = EnforceMode(fo, key),
                       !.lite_implicit_weak_fields =
                            SetFlag(fo.lite_implicit_weak_fields),
                       !.num_cc_files = RequestedCount(fo, value)]
      [] key = "proto_h" -> [fo EXCEPT !.proto_h = SetFlag(fo.proto_h)]
      [] key = "proto_static_reflection_h" -> fo
      [] key = "annotate_accessor" -> [fo EXCEPT !.annotate_accessor = SetFlag(fo.annotate_accessor)]
      [] key = "protos_for_field_listener_events" ->
            LET protos == StrSplit(value, ":", 1)
            IN IF \E j \in 1..Len(protos) : protos[j] = FileName
               THEN [fo EXCEPT !.inject_field_listener_events = SetFlag(fo.inject_field_listener_events)]
               ELSE fo
      [] key = "inject_field_listener_events" ->
            [fo EXCEPT !.inject_field_listener_events = SetFlag(fo.inject_field_listener_events)]
      [] key = "forbidden_field_listener_events" ->
            [fo EXCEPT !.forbidden_field_listener_events =
                ForbiddenEvents(value, 1, fo.forbidden_field_listener_events)]
      [] key = "unverified_lazy_message_sets" ->
            [fo EXCEPT !.unverified_lazy_message_sets = SetFlag(fo.unverified_lazy_message_sets)]
      [] key = "force_eagerly_verified_lazy" ->
            [fo EXCEPT !.force_eagerly_verified_lazy = SetFlag(fo.force_eagerly_verified_lazy)]
      [] key = "experimental_tail_call_table_mode" ->
            [fo EXCEPT !.tctable_mode =
                IF value = <<"never">> THEN "kTCTableNever" ELSE "kTCTableAlways"]
      [] OTHER -> fo

SafeBoundaryError ==
    <<"The safe_boundary_check option is not supported outside of Google.">>

SafeBoundaryNeverRejected(fo) == FALSE

\* The cross-field rule checked after the loop.
SafeBoundaryRejected(fo) == fo.safe_boundary_check /\ fo.opensource_runtime

\* ------------------------------------------------------------------ state
VARIABLES
    pc,                  \* position in Generate
    opensource_runtime_, \* CppGenerator member
    options,             \* the parsed (key, value) pairs
    it,                  \* position of the loop over options
    file_options,        \* Options file_options
    error,               \* *error
    result,              \* "none" while running or aborted, else the return value
    basename,            \* std::string basename
    bootstrapped,        \* MaybeBootstrap returned true
    numMessages,         \* file_generator.NumMessages()
    numExtensions,       \* file_generator.NumExtensions()
    usingImplicitWeakFields, \* "unset" before line 290, else "true"/"false"
    num_cc_files,        \* int num_cc_files
    cc_file_number,      \* int cc_file_number
    i,                   \* the loop variable of the two for loops
    opened,              \* the names passed to generator_context->Open, in order
    streams,             \* the names of the output streams not yet released
    emitted              \* the calls made on file_generator and annotations

vars == << pc, opensource_runtime_, options, it, file_options, error, result,
           basename, bootstrapped, numMessages, numExtensions,
           usingImplicitWeakFields, num_cc_files, cc_file_number, i, opened,
           streams, emitted >>

inputVars == << opensource_runtime_, options >>
parseVars == << it, file_options >>
fileVars == << basename, bootstrapped, numMessages, numExtensions >>
loopVars == << num_cc_files, cc_file_number, i >>
sinkVars == << opened, streams, emitted >>

\* State on entry to Generate, after ParseGeneratorParameter, for the token
\* sequences over T.
InitOver(T) ==
    /\ pc = "options"
    /\ opensource_runtime_ \in BOOLEAN
    /\ options \in TokenSeqs(T)
    /\ it = 1
    /\ file_options = DefaultOptions(opensource_runtime_)
    /\ error = <<>>
    /\ result = "none"
    /\ basename = <<>>
    /\ bootstrapped = FALSE
    /\ numMessages = 0
    /\ numExtensions = 0
    /\ usingImplicitWeakFields = "unset"
    /\ num_cc_files = 0
    /\ cc_file_number = 0
    /\ i = 0
    /\ opened = <<>>
    /\ streams = {}
    /\ emitted = <<>>

Init == InitOver(RunTokens)

InitOptions == InitOver(AllTokens)

\* return false with *error set
Fail(msg) ==
    /\ error' = msg
    /\ result' = "false"
    /\ pc' = "returned"

\* One iteration of the loop over the options.
ParseOption ==
    /\ pc = "options"
    /\ it <= Len(options)
    /\ LET key == options[it].key
           value == options[it].value
           err == OptionError(key, value)
       IN IF err # <<>>
          THEN Fail(err) /\ UNCHANGED parseVars
          ELSE /\ file_options' = ApplyOption(file_options, key, value)
               /\ it' = it + 1
               /\ UNCHANGED << pc, error, result >>
    /\ UNCHANGED << inputVars, fileVars, usingImplicitWeakFields, loopVars,
                    sinkVars >>

\* The loop is over: the safe_boundary_check rule, then StripProto.
CheckSafeBoundary ==
    /\ pc = "options"
    /\ it > Len(options)
    /\ IF SafeBoundaryRejected(file_options)
       THEN Fail(SafeBoundaryError) /\ UNCHANGED basename
       ELSE /\ pc' = "bootstrap"
            /\ basename' = StripProto(FileName)
            /\ UNCHANGED << error, result >>
    /\ UNCHANGED << inputVars, parseVars, bootstrapped, numMessages,
                    numExtensions, usingImplicitWeakFields, loopVars, sinkVars >>

InitTailCall == InitOver(TailCallTokens)

InitFlags == InitOver(FlagTokens)

NextOptions == ParseOption \/ CheckSafeBoundary

SpecOptions == InitOptions /\ [][NextOptions]_vars

\* ------------------------------------------------------------- artifacts
\* generator_context->Open(name), the stream owned by a unique_ptr
Open(name) ==
    /\ opened' = Append(opened, name)
    /\ streams' = streams \cup {name}

ReleaseLeaks(name) == streams' = streams

\* the unique_ptr owning the stream of `name` goes out of scope
Release(name) == streams' = streams \ {name}

\* A call on file_generator (or on the collected annotations) that writes to
\* the stream of `name`; index is -1 for the calls that take none.
Call(op, index, name, info_path) ==
    emitted' = Append(emitted, [op |-> op, index |-> index, stream |-> name,
                                info_path |-> info_path,
                                live |-> name \in streams,
                                nopened |-> Len(opened)])

ProtoHeaderName == StrCat(basename, <<".proto.h">>)
ProtoHeaderInfoPathNoSuffix == StrCat(basename, <<".proto.h">>)

ProtoHeaderInfoPath == StrCat(basename, <<".proto.h", ".meta">>)
PBHeaderNameOfProtoHeader == StrCat(basename, <<".proto.h">>)

PBHeaderName == StrCat(basename, <<".pb.h">>)
PBHeaderInfoPathOfProtoHeader == StrCat(basename, <<".proto.h", ".meta">>)

PBHeaderInfoPath == StrCat(basename, <<".pb.h", ".meta">>)
SourceNameNumbered == NumberedCcFileName(basename, 0)

SourceName == StrCat(basename, <<".pb.cc">>)

\* The results MaybeBootstrap can return: true for a unit it writes itself
\* (what it opens then is its own business), false for every other unit.
MaybeBootstrapResults == BOOLEAN

\* The results UsingImplicitWeakFields(file, file_options) can return. The
\* predicate is computed outside Generate, from the options and the schema;
\* Generate only branches on it, so both outcomes are allowed in every run.
UsingImplicitWeakFieldsResults == BOOLEAN

\* MaybeBootstrap, then the construction of file_generator from the file.
Bootstrap ==
    /\ pc = "bootstrap"
    /\ \E b \in MaybeBootstrapResults :
        IF b
        THEN /\ bootstrapped' = TRUE
             /\ result' = "true"
             /\ pc' = "returned"
             /\ UNCHANGED << numMessages, numExtensions >>
        ELSE /\ \E m \in 0..MaxMessages, e \in 0..MaxExtensions :
                    numMessages' = m /\ numExtensions' = e
             /\ pc' = IF file_options.proto_h THEN "proto_h" ELSE "pb_h"
             /\ UNCHANGED << bootstrapped, result >>
    /\ UNCHANGED << inputVars, parseVars, error, basename,
                    usingImplicitWeakFields, loopVars, sinkVars >>

\* What the header and source steps leave alone.
SinkStep ==
    UNCHANGED << inputVars, parseVars, error, result, fileVars,
                 usingImplicitWeakFields, loopVars >>

OpenProtoHeader ==
    /\ pc = "proto_h"
    /\ Open(ProtoHeaderName)
    /\ pc' = "proto_h_generate"
    /\ UNCHANGED emitted
    /\ SinkStep

GenerateProtoHeader ==
    /\ pc = "proto_h_generate"
    /\ Call("GenerateProtoHeader", -1, ProtoHeaderName,
            IF file_options.annotate_headers THEN ProtoHeaderInfoPath ELSE <<>>)
    /\ pc' = IF file_options.annotate_headers THEN "proto_h_info"
             ELSE "proto_h_close"
    /\ UNCHANGED << opened, streams >>
    /\ SinkStep

OpenProtoHeaderInfo ==
    /\ pc = "proto_h_info"
    /\ Open(ProtoHeaderInfoPath)
    /\ pc' = "proto_h_serialize"
    /\ UNCHANGED emitted
    /\ SinkStep

\* annotations.SerializeToZeroCopyStream, then info_output leaves its scope
SerializeProtoHeaderInfo ==
    /\ pc = "proto_h_serialize"
    /\ Call("SerializeToZeroCopyStream", -1, ProtoHeaderInfoPath, <<>>)
    /\ Release(ProtoHeaderInfoPath)
    /\ pc' = "proto_h_close"
    /\ UNCHANGED opened
    /\ SinkStep

CloseProtoHeader ==
    /\ pc = "proto_h_close"
    /\ Release(ProtoHeaderName)
    /\ pc' = "pb_h"
    /\ UNCHANGED << opened, emitted >>
    /\ SinkStep

OpenPBHeader ==
    /\ pc = "pb_h"
    /\ Open(PBHeaderName)
    /\ pc' = "pb_h_generate"
    /\ UNCHANGED emitted
    /\ SinkStep

GeneratePBHeader ==
    /\ pc = "pb_h_generate"
    /\ Call("GeneratePBHeader", -1, PBHeaderName,
            IF file_options.annotate_headers THEN PBHeaderInfoPath ELSE <<>>)
    /\ pc' = IF file_options.annotate_headers THEN "pb_h_info" ELSE "pb_h_close"
    /\ UNCHANGED << opened, streams >>
    /\ SinkStep

OpenPBHeaderInfo ==
    /\ pc = "pb_h_info"
    /\ Open(PBHeaderInfoPath)
    /\ pc' = "pb_h_serialize"
    /\ UNCHANGED emitted
    /\ SinkStep

SerializePBHeaderInfo ==
    /\ pc = "pb_h_serialize"
    /\ Call("SerializeToZeroCopyStream", -1, PBHeaderInfoPath, <<>>)
    /\ Release(PBHeaderInfoPath)
    /\ pc' = "pb_h_close"
    /\ UNCHANGED opened
    /\ SinkStep

ClosePBHeader ==
    /\ pc = "pb_h_close"
    /\ Release(PBHeaderName)
    /\ pc' = "cc"
    /\ UNCHANGED << opened, emitted >>
    /\ SinkStep

\* What the steps of the source part leave alone.
SourceStep == UNCHANGED << inputVars, parseVars, error, fileVars >>

OpenGlobalSourceChecksCountFirst ==
    /\ pc = "cc"
    /\ TRUE \in UsingImplicitWeakFieldsResults
    /\ usingImplicitWeakFields' = "true"
    /\ IF file_options.num_cc_files > 0
          /\ numMessages + numExtensions > file_options.num_cc_files
       THEN pc' = "aborted" /\ UNCHANGED << opened, streams >>
       ELSE Open(StrCat(basename, <<".pb.cc">>)) /\ pc' = "global_generate"
    /\ UNCHANGED << result, loopVars, emitted >>
    /\ UNCHANGED << inputVars, parseVars, error, fileVars >>

\* UsingImplicitWeakFields holds: the global .cc file is opened.
OpenGlobalSource ==
    /\ pc = "cc"
    /\ TRUE \in UsingImplicitWeakFieldsResults
    /\ usingImplicitWeakFields' = "true"
    /\ Open(SourceName)
    /\ pc' = "global_generate"
    /\ UNCHANGED << result, loopVars, emitted >>
    /\ SourceStep

GenerateGlobalSource ==
    /\ pc = "global_generate"
    /\ Call("GenerateGlobalSource", -1, SourceName, <<>>)
    /\ pc' = "global_close"
    /\ UNCHANGED << result, usingImplicitWeakFields, loopVars, opened, streams >>
    /\ SourceStep

CloseGlobalSource ==
    /\ pc = "global_close"
    /\ Release(SourceName)
    /\ pc' = "count"
    /\ UNCHANGED << result, usingImplicitWeakFields, loopVars, opened, emitted >>
    /\ SourceStep

CheckLEAlwaysPasses(a, b) == TRUE

\* ABSL_CHECK_LE(a, b): the process aborts unless a <= b
CheckLE(a, b) == a <= b

\* The number of numbered files, from the natural count and the requested one.
NumCcFilesNatural(natural, requested) == natural

NumCcFiles(natural, requested) ==
    IF requested > 0 THEN requested ELSE natural

\* int num_cc_files = ...; the check of the requested count; cc_file_number = 0
CountCcFiles ==
    /\ pc = "count"
    /\ LET natural == numMessages + numExtensions
           requested == file_options.num_cc_files
       IN IF requested > 0 /\ ~CheckLE(natural, requested)
          THEN /\ pc' = "aborted"
               /\ num_cc_files' = natural
               /\ UNCHANGED << cc_file_number, i >>
          ELSE /\ num_cc_files' = NumCcFiles(natural, requested)
               /\ cc_file_number' = 0
               /\ i' = 0
               /\ pc' = "messages"
    /\ UNCHANGED << result, usingImplicitWeakFields, sinkVars >>
    /\ SourceStep

OpenMessageSource ==
    /\ pc = "messages"
    /\ i < numMessages
    /\ Open(NumberedCcFileName(basename, cc_file_number))
    /\ cc_file_number' = cc_file_number + 1
    /\ pc' = "message_generate"
    /\ UNCHANGED << result, usingImplicitWeakFields, num_cc_files, i, emitted >>
    /\ SourceStep

GenerateSourceForMessage ==
    /\ pc = "message_generate"
    /\ Call("GenerateSourceForMessage", i,
            NumberedCcFileName(basename, cc_file_number - 1), <<>>)
    /\ pc' = "message_close"
    /\ UNCHANGED << result, usingImplicitWeakFields, loopVars, opened, streams >>
    /\ SourceStep

CloseMessageSource ==
    /\ pc = "message_close"
    /\ Release(NumberedCcFileName(basename, cc_file_number - 1))
    /\ i' = i + 1
    /\ pc' = "messages"
    /\ UNCHANGED << result, usingImplicitWeakFields, num_cc_files,
                    cc_file_number, opened, emitted >>
    /\ SourceStep

EndMessages ==
    /\ pc = "messages"
    /\ ~(i < numMessages)
    /\ i' = 0
    /\ pc' = "extensions"
    /\ UNCHANGED << result, usingImplicitWeakFields, num_cc_files,
                    cc_file_number, sinkVars >>
    /\ SourceStep

OpenExtensionSource ==
    /\ pc = "extensions"
    /\ i < numExtensions
    /\ Open(NumberedCcFileName(basename, cc_file_number))
    /\ cc_file_number' = cc_file_number + 1
    /\ pc' = "extension_generate"
    /\ UNCHANGED << result, usingImplicitWeakFields, num_cc_files, i, emitted >>
    /\ SourceStep

GenerateSourceForExtensionByFileNumber ==
    /\ pc = "extension_generate"
    /\ Call("GenerateSourceForExtension", cc_file_number - 1,
            NumberedCcFileName(basename, cc_file_number - 1), <<>>)
    /\ pc' = "extension_close"
    /\ UNCHANGED << result, usingImplicitWeakFields, loopVars, opened, streams >>
    /\ SourceStep

GenerateSourceForExtension ==
    /\ pc = "extension_generate"
    /\ Call("GenerateSourceForExtension", i,
            NumberedCcFileName(basename, cc_file_number - 1), <<>>)
    /\ pc' = "extension_close"
    /\ UNCHANGED << result, usingImplicitWeakFields, loopVars, opened, streams >>
    /\ SourceStep

CloseExtensionSource ==
    /\ pc = "extension_close"
    /\ Release(NumberedCcFileName(basename, cc_file_number - 1))
    /\ i' = i + 1
    /\ pc' = "extensions"
    /\ UNCHANGED << result, usingImplicitWeakFields, num_cc_files,
                    cc_file_number, opened, emitted >>
    /\ SourceStep

EndExtensions ==
    /\ pc = "extensions"
    /\ ~(i < numExtensions)
    /\ pc' = "placeholders"
    /\ UNCHANGED << result, usingImplicitWeakFields, loopVars, sinkVars >>
    /\ SourceStep

MorePlaceholdersInclusive(number, total) == number <= total

\* the condition of the while loop that creates the placeholders
MorePlaceholders(number, total) == number < total

OpenPlaceholder ==
    /\ pc = "placeholders"
    /\ MorePlaceholders(cc_file_number, num_cc_files)
    /\ Open(NumberedCcFileName(basename, cc_file_number))
    /\ cc_file_number' = cc_file_number + 1
    /\ pc' = "placeholder_release"
    /\ UNCHANGED << result, usingImplicitWeakFields, num_cc_files, i, emitted >>
    /\ SourceStep

ReleasePlaceholderAfterSource ==
    /\ pc = "placeholder_release"
    /\ Call("GenerateSource", -1,
            NumberedCcFileName(basename, cc_file_number - 1), <<>>)
    /\ Release(NumberedCcFileName(basename, cc_file_number - 1))
    /\ pc' = "placeholders"
    /\ UNCHANGED << result, usingImplicitWeakFields, loopVars, opened >>
    /\ UNCHANGED << inputVars, parseVars, error, fileVars >>

\* the temporary unique_ptr dies at the end of the full expression
ReleasePlaceholder ==
    /\ pc = "placeholder_release"
    /\ Release(NumberedCcFileName(basename, cc_file_number - 1))
    /\ pc' = "placeholders"
    /\ UNCHANGED << result, usingImplicitWeakFields, loopVars, opened, emitted >>
    /\ SourceStep

\* the while loop ends; return true
EndPlaceholders ==
    /\ pc = "placeholders"
    /\ ~MorePlaceholders(cc_file_number, num_cc_files)
    /\ result' = "true"
    /\ pc' = "returned"
    /\ UNCHANGED << usingImplicitWeakFields, loopVars, sinkVars >>
    /\ SourceStep

\* UsingImplicitWeakFields does not hold: the one .cc file is opened.
OpenSource ==
    /\ pc = "cc"
    /\ FALSE \in UsingImplicitWeakFieldsResults
    /\ usingImplicitWeakFields' = "false"
    /\ Open(SourceName)
    /\ pc' = "source_generate"
    /\ UNCHANGED << result, loopVars, emitted >>
    /\ SourceStep

GenerateSource ==
    /\ pc = "source_generate"
    /\ Call("GenerateSource", -1, SourceName, <<>>)
    /\ pc' = "source_close"
    /\ UNCHANGED << result, usingImplicitWeakFields, loopVars, opened, streams >>
    /\ SourceStep

\* the block ends; return true
CloseSource ==
    /\ pc = "source_close"
    /\ Release(SourceName)
    /\ result' = "true"
    /\ pc' = "returned"
    /\ UNCHANGED << usingImplicitWeakFields, loopVars, opened, emitted >>
    /\ SourceStep

Next ==
    \/ ParseOption
    \/ CheckSafeBoundary
    \/ Bootstrap
    \/ OpenProtoHeader
    \/ GenerateProtoHeader
    \/ OpenProtoHeaderInfo
    \/ SerializeProtoHeaderInfo
    \/ CloseProtoHeader
    \/ OpenPBHeader
    \/ GeneratePBHeader
    \/ OpenPBHeaderInfo
    \/ SerializePBHeaderInfo
    \/ ClosePBHeader
    \/ OpenGlobalSource
    \/ GenerateGlobalSource
    \/ CloseGlobalSource
    \/ CountCcFiles
    \/ OpenMessageSource
    \/ GenerateSourceForMessage
    \/ CloseMessageSource
    \/ EndMessages
    \/ OpenExtensionSource
    \/ GenerateSourceForExtension
    \/ CloseExtensionSource
    \/ EndExtensions
    \/ OpenPlaceholder
    \/ ReleasePlaceholder
    \/ EndPlaceholders
    \/ OpenSource
    \/ GenerateSource
    \/ CloseSource

Spec == Init /\ [][Next]_vars

SpecTailCall == InitTailCall /\ [][Next]_vars

SpecFlags == InitFlags /\ [][Next]_vars

\* ------------------------------------------------------------ properties
Returned == pc = "returned"

\* Generate ran to its last line (not the bootstrap shortcut) and returned true.
Completed == Returned /\ result = "true" /\ ~bootstrapped

SplitMode == usingImplicitWeakFields = "true"

Natural == numMessages + numExtensions

Requested == file_options.num_cc_files

\* A name of the form <basename>.out/<digits>.cc
IsNumbered(name) ==
    /\ Len(name) >= Len(basename) + 3
    /\ SubSeq(name, 1, Len(basename)) = basename
    /\ name[Len(basename) + 1] = ".out/"
    /\ name[Len(name)] = ".cc"
    /\ \A k \in (Len(basename) + 2)..(Len(name) - 1) : IsDigit(name[k])

\* The number read back from a numbered name.
NumberOf(name) == Strtol(SubSeq(name, Len(basename) + 2, Len(name) - 1))

NumberedAt == { k \in 1..Len(opened) : IsNumbered(opened[k]) }

EmittedTo(name) == { c \in 1..Len(emitted) : emitted[c].stream = name }

\* Numbered artifacts opened with no emitter call.
PlaceholderAt == { k \in NumberedAt : EmittedTo(opened[k]) = {} }

\* Some lite_implicit_weak_fields token carries a value.
ExplicitCount ==
    \E k \in 1..Len(options) :
        options[k].key = "lite_implicit_weak_fields" /\ options[k].value # <<>>

IsOptimizeKey(key) ==
    key \in {"speed", "code_size", "lite", "lite_implicit_weak_fields"}

ModeOfKey(key) ==
    CASE key = "speed" -> "kSpeed"
      [] key = "code_size" -> "kCodeSize"
      [] OTHER -> "kLiteRuntime"

UnknownKeyAt(k) == options[k].key \notin KnownKeys

BadTailCallAt(k) ==
    /\ options[k].key = "experimental_tail_call_table_mode"
    /\ options[k].value \notin {<<"never">>, <<"always">>}

FailingAt(k) == UnknownKeyAt(k) \/ BadTailCallAt(k)

FirstFailingAt(k) == FailingAt(k) /\ \A j \in 1..(k - 1) : ~FailingAt(j)

\* C1: in split mode with a requested count N above the natural count, a
\* completed run has opened exactly N numbered artifacts, exactly N - natural
\* of them without an emitter call, and each of those after every numbered
\* artifact that got an emitter call.
C1_PlaceholdersPadToRequested ==
    (Completed /\ SplitMode /\ Requested > Natural) =>
        /\ Cardinality(NumberedAt) = Requested
        /\ Cardinality(PlaceholderAt) = Requested - Natural
        /\ \A p \in PlaceholderAt : \A q \in NumberedAt \ PlaceholderAt : q < p

C1_Witness ==
    /\ Completed /\ SplitMode /\ Requested > Natural
    /\ numMessages > 0 /\ numExtensions > 0
    /\ Cardinality(PlaceholderAt) >= 2

\* C2 as stated: in split mode with an explicit requested count N (a
\* non-negative integer) below the natural count, Generate never returns.
C2_ExplicitBelowNaturalNeverReturns ==
    ~(Returned /\ SplitMode /\ ExplicitCount
      /\ Requested >= 0 /\ Requested < Natural)

\* C2 as amended: in split mode with a requested count N, 0 < N < natural,
\* Generate never returns: it gets no further than the check of the count,
\* where the process aborts; and it aborts in no other case.
C2_PositiveBelowNaturalAborts ==
    /\ (SplitMode /\ Requested > 0 /\ Requested < Natural) =>
            /\ pc \in {"global_generate", "global_close", "count", "aborted"}
            /\ result = "none"
    /\ pc = "aborted" =>
            SplitMode /\ Requested > 0 /\ Requested < Natural /\ result = "none"

C2_Witness ==
    pc = "aborted" /\ SplitMode /\ Requested > 0 /\ Requested < Natural

\* C3: in split mode the numbers in the numbered names, in the order the
\* artifacts are opened, are 0, 1, 2, ...: the k-th numbered artifact opened
\* carries k - 1, whether it is a message, extension or placeholder artifact;
\* numbered artifacts are opened back to back and the counter equals their
\* count.
C3_NumbersCountUpFromZero ==
    LET numbered == SelectSeq(opened, IsNumbered)
    IN /\ \A k \in 1..Len(numbered) : NumberOf(numbered[k]) = k - 1
       /\ \A k \in 1..Len(numbered) :
            numbered[k] = basename \o <<".out/">> \o IntStr(k - 1) \o <<".cc">>
       /\ SplitMode /\ pc \notin {"global_generate", "global_close", "count",
                                   "aborted"}
            => cc_file_number = Len(numbered)
       /\ (Completed /\ SplitMode) =>
            Len(numbered) = IF Requested > 0 THEN Requested ELSE Natural

C3_Witness ==
    /\ Completed /\ SplitMode
    /\ numMessages > 0 /\ numExtensions > 0
    /\ PlaceholderAt # {}
    /\ Cardinality(NumberedAt) > 10

\* C4: when the first failing token is an unknown key k, the run opens
\* nothing, stops its loop at k, and returns false with the error
\* "Unknown generator option: " followed by k.
C4_UnknownKeyFailsFast ==
    \A k \in 1..Len(options) :
        (FirstFailingAt(k) /\ UnknownKeyAt(k)) =>
            /\ opened = <<>> /\ streams = {} /\ emitted = <<>>
            /\ pc \in {"options", "returned"}
            /\ it <= k
            /\ Returned =>
                /\ result = "false"
                /\ error = <<"Unknown generator option: ", options[k].key>>
                /\ it = k

C4_Witness ==
    /\ Returned /\ result = "false"
    /\ Len(options) = 2
    /\ FirstFailingAt(1) /\ UnknownKeyAt(1) /\ BadTailCallAt(2)
    /\ error = <<"Unknown generator option: ", "bogus">>

\* C5: when safe_boundary_check occurs in the tokens and every token is
\* valid, an open-source run opens nothing and returns false with the
\* incompatibility error; an internal run does not fail.
C5_SafeBoundaryRejectedInOpenSource ==
    ((\E k \in 1..Len(options) : options[k].key = "safe_boundary_check")
     /\ \A k \in 1..Len(options) : ~FailingAt(k)) =>
        IF opensource_runtime_
        THEN /\ opened = <<>> /\ streams = {} /\ emitted = <<>>
             /\ pc \in {"options", "returned"}
             /\ Returned =>
                  /\ result = "false"
                  /\ error = <<"The safe_boundary_check option is not supported outside of Google.">>
        ELSE /\ error = <<>>
             /\ result # "false"

C5_Witness ==
    /\ Returned /\ result = "false" /\ opensource_runtime_
    /\ Len(options) = 2
    /\ options[1].key = "safe_boundary_check"
    /\ options[2].key = "proto_h"
    /\ error = SafeBoundaryError

\* C6 as stated: at most one artifact output stream is open at any point.
C6_AtMostOneStreamOpen == Cardinality(streams) <= 1

\* C6 as amended: at most one stream is open, except while a header's
\* metadata is serialized, when exactly the header's stream and the stream of
\* its metadata artifact are open; no stream is open when a header, a source,
\* a numbered or a placeholder artifact is about to be opened, nor when
\* Generate has returned.
C6_OneStreamOrHeaderWithMetadata ==
    /\ pc = "proto_h_serialize" => streams = {ProtoHeaderName, ProtoHeaderInfoPath}
    /\ pc = "pb_h_serialize" => streams = {PBHeaderName, PBHeaderInfoPath}
    /\ pc \notin {"proto_h_serialize", "pb_h_serialize"} =>
            Cardinality(streams) <= 1
    /\ pc \in {"options", "bootstrap", "proto_h", "pb_h", "cc", "count",
               "messages", "extensions", "placeholders", "returned",
               "aborted"} => streams = {}

C6_Witness ==
    /\ pc = "pb_h_serialize"
    /\ Cardinality(streams) = 2
    /\ Len(opened) = 4

\* C7: the metadata artifact of a header is opened only when annotate_headers
\* is set, right after its header (nothing is opened in between) and after
\* the header's emitter call, which was made with the header open; a
\* completed run has opened <basename>.pb.h.meta iff annotate_headers is set,
\* and <basename>.proto.h.meta iff annotate_headers and proto_h are set.
MetaOpenedAfterHeader(header, op) ==
    \A k \in 1..Len(opened) :
        opened[k] = header \o <<".meta">> =>
            /\ file_options.annotate_headers
            /\ k > 1 /\ opened[k - 1] = header
            /\ \E c \in 1..Len(emitted) :
                /\ emitted[c].op = op
                /\ emitted[c].stream = header
                /\ emitted[c].nopened = k - 1
                /\ emitted[c].info_path = opened[k]

OpenedNames == { opened[k] : k \in 1..Len(opened) }

C7_MetadataFollowsAnnotatedHeader ==
    /\ MetaOpenedAfterHeader(basename \o <<".proto.h">>, "GenerateProtoHeader")
    /\ MetaOpenedAfterHeader(basename \o <<".pb.h">>, "GeneratePBHeader")
    /\ \A k \in 1..Len(opened) :
            opened[k][Len(opened[k])] = ".meta" =>
                opened[k] \in { basename \o <<".proto.h", ".meta">>,
                                basename \o <<".pb.h", ".meta">> }
    /\ Completed =>
        /\ basename \o <<".pb.h">> \in OpenedNames
        /\ basename \o <<".proto.h">> \in OpenedNames <=> file_options.proto_h
        /\ basename \o <<".pb.h", ".meta">> \in OpenedNames
                <=> file_options.annotate_headers
        /\ basename \o <<".proto.h", ".meta">> \in OpenedNames
                <=> (file_options.annotate_headers /\ file_options.proto_h)

C7_Witness ==
    /\ Completed
    /\ file_options.annotate_headers /\ file_options.proto_h
    /\ opened[2] = <<"a", ".proto.h", ".meta">>
    /\ opened[4] = <<"a", ".pb.h", ".meta">>

\* C8: the optimize mode is that of the last optimize-mode token processed
\* (speed, code_size, lite, lite_implicit_weak_fields), whatever the earlier
\* ones said, and unset when there is none.
C8_LastOptimizeModeWins ==
    LET seen == { k \in 1..(it - 1) : IsOptimizeKey(options[k].key) }
    IN IF seen = {}
       THEN file_options.enforce_mode = "kNoEnforcement"
       ELSE \E last \in seen :
                /\ \A k \in seen : k <= last
                /\ file_options.enforce_mode = ModeOfKey(options[last].key)

C8_Witness ==
    /\ pc = "bootstrap"
    /\ Len(options) = 2
    /\ options[1].key = "speed" /\ options[2].key = "code_size"
    /\ file_options.enforce_mode = "kCodeSize"

\* C9: in split mode with the requested count zero (absent, "0" or not a
\* number) the run does not abort, and when it completes it has opened
\* exactly natural numbered artifacts, none of them a placeholder.
C9_NaturalCountWithoutRequest ==
    (SplitMode /\ Requested = 0) =>
        /\ pc # "aborted"
        /\ Returned =>
            /\ result = "true"
            /\ Cardinality(NumberedAt) = Natural
            /\ PlaceholderAt = {}

C9_Witness ==
    /\ Completed /\ SplitMode /\ Requested = 0
    /\ numMessages > 0 /\ numExtensions > 0
    /\ ExplicitCount

\* C10: the names passed to Open in one run are pairwise distinct.
C10_OpenedNamesDistinct ==
    \A a, b \in 1..Len(opened) : a # b => opened[a] # opened[b]

C10_Witness ==
    /\ Completed /\ SplitMode
    /\ file_options.annotate_headers /\ file_options.proto_h
    /\ Len(opened) = 9
    /\ Cardinality(NumberedAt) = 4

\* C11: when split mode is not active, a completed run has opened exactly
\* one source artifact, <basename>.pb.cc, made exactly one emitter call on a
\* source, GenerateSource, and opened no numbered artifact, whatever the
\* requested count is.
IsHeaderOrMeta(name) == name[Len(name)] \in {".proto.h", ".pb.h", ".meta"}

SourcesAt == { k \in 1..Len(opened) : ~IsHeaderOrMeta(opened[k]) }

SourceCallsAt ==
    { c \in 1..Len(emitted) :
        emitted[c].op \in {"GenerateSource", "GenerateGlobalSource",
                           "GenerateSourceForMessage",
                           "GenerateSourceForExtension"} }

C11_SingleSourceWithoutSplit ==
    /\ usingImplicitWeakFields = "false" => NumberedAt = {}
    /\ (Completed /\ usingImplicitWeakFields = "false") =>
        /\ Cardinality(SourcesAt) = 1
        /\ \A k \in SourcesAt : opened[k] = basename \o <<".pb.cc">>
        /\ Cardinality(SourceCallsAt) = 1
        /\ \A c \in SourceCallsAt :
            /\ emitted[c].op = "GenerateSource"
            /\ emitted[c].stream = basename \o <<".pb.cc">>

C11_Witness ==
    /\ Completed /\ usingImplicitWeakFields = "false"
    /\ Requested = 3
    /\ file_options.enforce_mode = "kSpeed"
    /\ Natural = 4

IsTailCallError(e) ==
    /\ Len(e) >= 1
    /\ e[1] = "Unknown value for experimental_tail_call_table_mode: "

\* C12 as stated: when some experimental_tail_call_table_mode token carries a
\* value other than "never" or "always", Generate opens nothing and returns
\* false with an error naming such a value.
C12_BadValueAlwaysNamed ==
    (\E k \in 1..Len(options) : BadTailCallAt(k)) =>
        /\ opened = <<>>
        /\ pc \in {"options", "returned"}
        /\ Returned =>
            /\ result = "false"
            /\ \E k \in 1..Len(options) :
                /\ BadTailCallAt(k)
                /\ error = <<"Unknown value for experimental_tail_call_table_mode: ">>
                           \o options[k].value

\* C12 as amended: a bad value (the empty value of a bare key included) makes
\* Generate open nothing and return false; the error names the bad value when
\* that token is the first failing one (an unknown key before it is reported
\* instead). The tail-call mode is that of the last occurrence of the key
\* processed, and default when there is none.
C12_FirstBadValueNamedLastModeWins ==
    /\ (\E k \in 1..Len(options) : BadTailCallAt(k)) =>
        /\ opened = <<>> /\ streams = {} /\ emitted = <<>>
        /\ pc \in {"options", "returned"}
        /\ Returned => result = "false"
    /\ \A k \in 1..Len(options) :
        (FirstFailingAt(k) /\ BadTailCallAt(k) /\ Returned) =>
            /\ error = <<"Unknown value for experimental_tail_call_table_mode: ">>
                       \o options[k].value
            /\ it = k
    /\ IsTailCallError(error) =>
            \E k \in 1..Len(options) : FirstFailingAt(k) /\ BadTailCallAt(k)
    /\ LET seen == { k \in 1..(it - 1) :
                        options[k].key = "experimental_tail_call_table_mode" }
       IN IF seen = {}
          THEN file_options.tctable_mode = "default"
          ELSE \E last \in seen :
                /\ \A k \in seen : k <= last
                /\ file_options.tctable_mode =
                     IF options[last].value = <<"never">> THEN "kTCTableNever"
                     ELSE "kTCTableAlways"
                /\ options[last].value \in {<<"never">>, <<"always">>}

C12_Witness ==
    /\ Returned /\ result = "false"
    /\ Len(options) = 2
    /\ options[1] = Tok("experimental_tail_call_table_mode", <<"never">>)
    /\ options[2] = Tok("experimental_tail_call_table_mode", <<>>)
    /\ error = <<"Unknown value for experimental_tail_call_table_mode: ">>
    /\ file_options.tctable_mode = "kTCTableNever"
    /\ opened = <<>>

\* The artifact names a run opens, in order, as a function of the
\* configuration, the split predicate and the element counts.
HeaderPlan(fo) ==
    (IF fo.proto_h
     THEN <<basename \o <<".proto.h">>>> \o
          (IF fo.annotate_headers
           THEN <<basename \o <<".proto.h", ".meta">>>> ELSE <<>>)
     ELSE <<>>)
    \o <<basename \o <<".pb.h">>>>
    \o (IF fo.annotate_headers
        THEN <<basename \o <<".pb.h", ".meta">>>> ELSE <<>>)

NumberedPlan(n) ==
    [k \in 1..n |-> basename \o <<".out/">> \o IntStr(k - 1) \o <<".cc">>]

Plan(fo, split, messages, extensions) ==
    HeaderPlan(fo) \o <<basename \o <<".pb.cc">>>>
    \o (IF split
        THEN NumberedPlan(IF fo.num_cc_files > 0 THEN fo.num_cc_files
                          ELSE messages + extensions)
        ELSE <<>>)

IsPrefix(s, t) == Len(s) <= Len(t) /\ s = SubSeq(t, 1, Len(s))

FlagKeys ==
    { "safe_boundary_check", "annotate_headers", "proto_h", "annotate_accessor",
      "inject_field_listener_events", "unverified_lazy_message_sets",
      "force_eagerly_verified_lazy" }

\* The key occurs among the tokens processed so far.
Seen(key) == \E k \in 1..(it - 1) : options[k].key = key

\* A protos_for_field_listener_events token processed so far lists this file.
SeenListed ==
    \E k \in 1..(it - 1) :
        /\ options[k].key = "protos_for_field_listener_events"
        /\ \E j \in 1..(Len(options[k].value) - 1) :
            /\ SubSeq(options[k].value, j, j + 1) = <<"a", ".proto">>
            /\ (j = 1 \/ options[k].value[j - 1] = ":")
            /\ (j + 1 = Len(options[k].value) \/ options[k].value[j + 2] = ":")

RECURSIVE ResolveSeq(_, _)
ResolveSeq(fo, seq) ==
    IF seq = <<>> THEN fo
    ELSE ResolveSeq(ApplyOption(fo, seq[1].key, seq[1].value), Tail(seq))

IsNotFlag(t) == t.key \notin FlagKeys

\* C13: each boolean flag is true exactly when its key occurs among the
\* tokens processed (so a further occurrence changes nothing and no later
\* token resets it); every other field of the configuration is what the
\* processed tokens give with the flag tokens left out; a failure is that of
\* the first failing token, which is never a flag token, or the
\* safe_boundary_check rule; and the artifacts opened follow from the
\* configuration by Plan, which reads no flag but proto_h and
\* annotate_headers.
C13_FlagsIdempotentAndSticky ==
    LET fo == file_options
        rest == ResolveSeq(DefaultOptions(opensource_runtime_),
                           SelectSeq(SubSeq(options, 1, it - 1), IsNotFlag))
    IN /\ fo.safe_boundary_check = Seen("safe_boundary_check")
       /\ fo.annotate_headers = Seen("annotate_headers")
       /\ fo.proto_h = Seen("proto_h")
       /\ fo.annotate_accessor = Seen("annotate_accessor")
       /\ fo.inject_field_listener_events =
            (Seen("inject_field_listener_events") \/ SeenListed)
       /\ fo.unverified_lazy_message_sets = Seen("unverified_lazy_message_sets")
       /\ fo.force_eagerly_verified_lazy = Seen("force_eagerly_verified_lazy")
       /\ fo.dllexport_decl = rest.dllexport_decl
       /\ fo.annotation_pragma_name = rest.annotation_pragma_name
       /\ fo.annotation_guard_name = rest.annotation_guard_name
       /\ fo.enforce_mode = rest.enforce_mode
       /\ fo.lite_implicit_weak_fields = rest.lite_implicit_weak_fields
       /\ fo.num_cc_files = rest.num_cc_files
       /\ fo.forbidden_field_listener_events = rest.forbidden_field_listener_events
       /\ fo.tctable_mode = rest.tctable_mode
       /\ \A k \in 1..Len(options) : options[k].key \in FlagKeys => ~FailingAt(k)
       /\ (Returned /\ result = "false") =>
            \/ /\ \E k \in 1..Len(options) : FirstFailingAt(k) /\ it = k
               /\ error # SafeBoundaryError
            \/ /\ \A k \in 1..Len(options) : ~FailingAt(k)
               /\ error = SafeBoundaryError
               /\ opensource_runtime_ /\ Seen("safe_boundary_check")
       /\ Completed =>
            opened = Plan([DefaultOptions(FALSE) EXCEPT
                               !.proto_h = fo.proto_h,
                               !.annotate_headers = fo.annotate_headers,
                               !.num_cc_files = fo.num_cc_files],
                          SplitMode, numMessages, numExtensions)

C13_Witness ==
    /\ Completed /\ SplitMode
    /\ Len(options) = 2
    /\ options[1].key = "proto_h" /\ options[2].key = "proto_h"
    /\ file_options.proto_h
    /\ opened[1] = <<"a", ".proto.h">>

\* C14: the names opened are a function of the configuration, the split
\* predicate and the element counts: at every point they are a prefix of
\* Plan, all of it when the run completes, and the headers and the global
\* source when it aborts.
C14_OpenedFollowsPlan ==
    /\ usingImplicitWeakFields = "unset" =>
            IsPrefix(opened, HeaderPlan(file_options))
    /\ usingImplicitWeakFields # "unset" =>
            IsPrefix(opened, Plan(file_options, SplitMode, numMessages,
                                  numExtensions))
    /\ Completed =>
            opened = Plan(file_options, SplitMode, numMessages, numExtensions)
    /\ pc = "aborted" =>
            opened = HeaderPlan(file_options) \o <<basename \o <<".pb.cc">>>>

C14_Witness ==
    /\ Completed /\ SplitMode
    /\ file_options.annotate_headers
    /\ numMessages = 1 /\ numExtensions = 2
    /\ Requested = 12
    /\ Len(opened) = 15

IsNotMeta(name) == name[Len(name)] # ".meta"

NumberedName(k) == basename \o <<".out/">> \o IntStr(k) \o <<".cc">>

\* The calls made on the stream of `name`, as <<op, index>> pairs, in order.
CallsOn(name) ==
    LET on(c) == c.stream = name
        calls == SelectSeq(emitted, on)
    IN [c \in 1..Len(calls) |-> <<calls[c].op, calls[c].index>>]

\* C15: a completed split-mode run has opened, metadata artifacts aside,
\* <basename>.proto.h (iff proto_h is set), <basename>.pb.h, <basename>.pb.cc
\* and then the numbered artifacts 0, 1, ... in this order; numbered artifact
\* k got GenerateSourceForMessage(k) when k < NumMessages,
\* GenerateSourceForExtension(k - NumMessages) when NumMessages <= k < natural,
\* and no call beyond; the calls were made in the order of the artifacts.
C15_SplitOrder ==
    (Completed /\ SplitMode) =>
        LET plain == SelectSeq(opened, IsNotMeta)
            heads == (IF file_options.proto_h
                      THEN <<basename \o <<".proto.h">>>> ELSE <<>>)
                     \o <<basename \o <<".pb.h">>, basename \o <<".pb.cc">>>>
            total == Len(plain) - Len(heads)
        IN /\ Len(plain) >= Len(heads)
           /\ SubSeq(plain, 1, Len(heads)) = heads
           /\ total >= Natural
           /\ \A k \in 0..(total - 1) :
                /\ plain[Len(heads) + k + 1] = NumberedName(k)
                /\ CallsOn(NumberedName(k)) =
                     IF k < numMessages
                     THEN << <<"GenerateSourceForMessage", k>> >>
                     ELSE IF k < Natural
                     THEN << <<"GenerateSourceForExtension", k - numMessages>> >>
                     ELSE << >>
           /\ \A c, d \in 1..Len(emitted) :
                c < d => emitted[c].nopened <= emitted[d].nopened

C15_Witness ==
    /\ Completed /\ SplitMode
    /\ file_options.proto_h
    /\ numMessages = 2 /\ numExtensions = 2
    /\ Requested = 12
    /\ Len(opened) = 15
    /\ CallsOn(NumberedName(3)) = << <<"GenerateSourceForExtension", 1>> >>

\* C16: when Generate aborts (the requested count N has 0 < N < natural in
\* split mode), the headers, with their metadata if enabled, and the global
\* source <basename>.pb.cc have been opened, emitted and released, in this
\* order, and nothing else: no numbered artifact is opened in such a run.
C16_AbortLeavesHeadersAndGlobalSource ==
    /\ (SplitMode /\ Requested > 0 /\ Requested < Natural) => NumberedAt = {}
    /\ pc = "aborted" =>
        LET fo == file_options
            proto == IF fo.proto_h
                     THEN <<basename \o <<".proto.h">>>> \o
                          (IF fo.annotate_headers
                           THEN <<basename \o <<".proto.h", ".meta">>>>
                           ELSE <<>>)
                     ELSE <<>>
            pb == <<basename \o <<".pb.h">>>> \o
                  (IF fo.annotate_headers
                   THEN <<basename \o <<".pb.h", ".meta">>>> ELSE <<>>)
        IN /\ SplitMode /\ Requested > 0 /\ Requested < Natural
           /\ opened = proto \o pb \o <<basename \o <<".pb.cc">>>>
           /\ \A k \in 1..Len(opened) : Len(CallsOn(opened[k])) = 1
           /\ CallsOn(basename \o <<".pb.h">>) = << <<"GeneratePBHeader", -1>> >>
           /\ CallsOn(basename \o <<".pb.cc">>) =
                    << <<"GenerateGlobalSource", -1>> >>
           /\ emitted[Len(emitted)].op = "GenerateGlobalSource"
           /\ \A c \in 1..Len(emitted) : emitted[c].live
           /\ streams = {}
           /\ result = "none"

C16_Witness ==
    /\ pc = "aborted"
    /\ file_options.annotate_headers
    /\ Requested = 1 /\ Natural = 3
    /\ opened = << <<"a", ".pb.h">>, <<"a", ".pb.h", ".meta">>, <<"a", ".pb.cc">> >>

\* The options were resolved without error and Generate goes on.
Resolved == pc \notin {"options", "returned"} \/ (Returned /\ result = "true")

\* C17 as stated: when the tokens contain lite_implicit_weak_fields and
\* resolve without error, the optimize mode is lite-runtime and the
\* implicit-weak-fields switch is true.
C17_WeakFieldsForcesLite ==
    (Resolved /\ \E k \in 1..Len(options) :
                    options[k].key = "lite_implicit_weak_fields") =>
        /\ file_options.enforce_mode = "kLiteRuntime"
        /\ file_options.lite_implicit_weak_fields

\* C17 as amended: the implicit-weak-fields switch is true exactly when a
\* lite_implicit_weak_fields token was processed, and then the optimize mode
\* is lite-runtime unless a speed or code_size token follows the last
\* lite_implicit_weak_fields token with no lite token after it, in which case
\* it is the mode of the last of those.
C17_WeakFieldsSwitchStaysModeLastWins ==
    LET weak == { k \in 1..(it - 1) :
                    options[k].key = "lite_implicit_weak_fields" }
        later == { k \in 1..(it - 1) :
                    /\ options[k].key \in {"speed", "code_size", "lite"}
                    /\ \A w \in weak : w < k }
    IN /\ file_options.lite_implicit_weak_fields = (weak # {})
       /\ weak # {} =>
            IF later = {}
            THEN file_options.enforce_mode = "kLiteRuntime"
            ELSE \E last \in later :
                    /\ \A k \in later : k <= last
                    /\ file_options.enforce_mode =
                         CASE options[last].key = "speed" -> "kSpeed"
                           [] options[last].key = "code_size" -> "kCodeSize"
                           [] OTHER -> "kLiteRuntime"

C17_Witness ==
    /\ pc = "bootstrap"
    /\ Len(options) = 2
    /\ options[1] = Tok("lite_implicit_weak_fields", <<"3">>)
    /\ options[2].key = "code_size"
    /\ file_options.enforce_mode = "kCodeSize"
    /\ file_options.lite_implicit_weak_fields

\* The positions, among the tokens processed, of the tokens with this key.
SeenAt(key) == { k \in 1..(it - 1) : options[k].key = key }

\* The value of the last token processed among those at `at`; <<>> if none.
LastValue(at) ==
    IF at = {} THEN <<>>
    ELSE options[CHOOSE last \in at : \A k \in at : k <= last].value

\* C18 as stated: each string option holds the value of the last occurrence
\* of its key, and the requested count is the one the last occurrence of
\* lite_implicit_weak_fields gives (none, that is 0, when it is bare).
C18_LastOccurrenceWins ==
    /\ file_options.dllexport_decl = LastValue(SeenAt("dllexport_decl"))
    /\ file_options.annotation_pragma_name =
            LastValue(SeenAt("annotation_pragma_name"))
    /\ file_options.annotation_guard_name =
            LastValue(SeenAt("annotation_guard_name"))
    /\ file_options.num_cc_files =
            Strtol(LastValue(SeenAt("lite_implicit_weak_fields")))

\* C18 as amended: each string option holds the value of the last occurrence
\* of its key (the empty value of a bare key included); the requested count
\* is the one given by the last occurrence of lite_implicit_weak_fields that
\* carries a value, and 0 when there is none: a bare occurrence leaves an
\* earlier count in place.
C18_LastValuedOccurrenceWins ==
    /\ file_options.dllexport_decl = LastValue(SeenAt("dllexport_decl"))
    /\ file_options.annotation_pragma_name =
            LastValue(SeenAt("annotation_pragma_name"))
    /\ file_options.annotation_guard_name =
            LastValue(SeenAt("annotation_guard_name"))
    /\ file_options.num_cc_files =
            Strtol(LastValue({ k \in SeenAt("lite_implicit_weak_fields") :
                                 options[k].value # <<>> }))

C18_Witness ==
    /\ pc = "bootstrap"
    /\ options = << Tok("lite_implicit_weak_fields", <<"3">>),
                    Tok("lite_implicit_weak_fields", <<>>) >>
    /\ file_options.num_cc_files = 3

\* The calls an artifact is due, by its name: its role's emitter call, the
\* serialization for a metadata artifact, nothing for a placeholder.
CallsDue(name) ==
    LET last == name[Len(name)]
    IN CASE last = ".meta" -> << <<"SerializeToZeroCopyStream", -1>> >>
         [] last = ".proto.h" -> << <<"GenerateProtoHeader", -1>> >>
         [] last = ".pb.h" -> << <<"GeneratePBHeader", -1>> >>
         [] last = ".pb.cc" ->
                IF SplitMode THEN << <<"GenerateGlobalSource", -1>> >>
                ELSE << <<"GenerateSource", -1>> >>
         [] OTHER ->
                IF NumberOf(name) < numMessages
                THEN << <<"GenerateSourceForMessage", NumberOf(name)>> >>
                ELSE IF NumberOf(name) < Natural
                THEN << <<"GenerateSourceForExtension",
                          NumberOf(name) - numMessages>> >>
                ELSE << >>

\* C19: every call is made on a stream that is open, the one of the artifact
\* opened last or of its header; in a completed run each artifact that is
\* neither a placeholder nor a metadata artifact got exactly one emitter
\* call, the one of its role and index, each placeholder (a numbered artifact
\* beyond the natural count) got none, and every stream has been released.
C19_OneEmitterCallPerArtifact ==
    /\ \A c \in 1..Len(emitted) :
        /\ emitted[c].live
        /\ emitted[c].nopened >= 1
        /\ emitted[c].stream = opened[emitted[c].nopened]
    /\ \A k \in 1..Len(opened) : Len(CallsOn(opened[k])) <= 1
    /\ Completed =>
        /\ \A k \in 1..Len(opened) : CallsOn(opened[k]) = CallsDue(opened[k])
        /\ \A k \in 1..Len(opened) :
            (IsNumbered(opened[k]) /\ NumberOf(opened[k]) >= Natural) =>
                EmittedTo(opened[k]) = {}
        /\ streams = {}

C19_Witness ==
    /\ Completed /\ SplitMode
    /\ file_options.annotate_headers
    /\ numMessages = 1 /\ numExtensions = 1
    /\ Requested = 3
    /\ Len(emitted) = 5
    /\ EmittedTo(<<"a", ".out/", "2", ".cc">>) = {}

\* The non-empty maximal runs of pieces of `value` that hold no "+".
PlusSegments(value) ==
    { SubSeq(value, a, b) : <<a, b>> \in
        { p \in (1..Len(value)) \X (1..Len(value)) :
            /\ p[1] <= p[2]
            /\ \A j \in p[1]..p[2] : value[j] # "+"
            /\ (p[1] = 1 \/ value[p[1] - 1] = "+")
            /\ (p[2] = Len(value) \/ value[p[2] + 1] = "+") } }

\* C20: the set of forbidden field-listener events is the union, over the
\* forbidden_field_listener_events tokens processed, of the non-empty
\* segments of their values between "+" signs.
C20_ForbiddenEventsAccumulate ==
    file_options.forbidden_field_listener_events =
        UNION { PlusSegments(options[k].value) :
                    k \in SeenAt("forbidden_field_listener_events") }

C20_Witness ==
    /\ pc = "bootstrap"
    /\ options = << Tok("forbidden_field_listener_events",
                        <<"+", "e", "+", "+", "f", "+">>),
                    Tok("forbidden_field_listener_events", <<"g", "+", "e">>) >>
    /\ file_options.forbidden_field_listener_events = {<<"e">>, <<"f">>, <<"g">>}

====
